---- MODULE Spec2Model ----
(***************************************************************************)
(* The paginated fetch routines of scriptForAtlassian:                     *)
(*   fetch_and_save        (src/fetch_jira_data.py, generic Jira endpoint) *)
(*   fetch_jira_issues     (src/fetch_jira_data.py, JQL issue search)      *)
(*   fetch_confluence_data (src/fetch_confluence_data.py)                  *)
(* together with the credential selection (get_auth, get_confluence_auth)  *)
(* and the batch drivers that call the routines one after the other.       *)
(*                                                                         *)
(* A response body is a JSON object or a JSON array.  The HTTP server is   *)
(* the environment: it answers every request either with a body or with a  *)
(* failure (transport error or non-2xx status, both of which requests      *)
(* raises as a RequestException).                                          *)
(***************************************************************************)
EXTENDS Integers, Sequences, FiniteSets, TLC

VARIABLES
  cfg,        \* the configuration module: the credential settings
  server,     \* the environment: how the HTTP server answers
  calls,      \* the batch: the fetch routines the driver calls, in order
  idx,        \* position of the driver in the batch (1-based)
  pc,         \* "idle": between two calls; "loop": inside a routine's while loop
  start_at,   \* the routine's offset cursor
  all_data,   \* the routine's accumulator (all_data / all_issues)
  requests,   \* number of requests.get calls the current routine has made
  data,       \* the body of the last response parsed (response.json())
  sent,       \* the last request issued: query parameters and credentials
  results     \* per finished call: file written or error logged

vars == <<cfg, server, calls, idx, pc, start_at, all_data, requests, data, sent, results>>

----------------------------------------------------------------------------
(* Bounds of the exploration *)

MaxTotal == 101     \* largest collection a paging server holds
MaxFree == 2        \* requests per fetch an unconstrained server answers
FreeTotal == 70     \* the non-zero total an unconstrained server may report
BatchLen == 2       \* calls in a batch (prefix of the drivers' catalogs)

(* Program constants *)

max_results == 50   \* Jira page size
limit == 50         \* Confluence page size

JIRA_USERNAME == "user"
CONFLUENCE_USERNAME == "user"

----------------------------------------------------------------------------
(* JSON values *)

Item(n) == [id |-> n]

\* the items with ids a .. b-1, in order
Slice(a, b) == [i \in 1..(IF b > a THEN b - a ELSE 0) |-> Item(a + i - 1)]

\* A JSON object.  list: the list-valued key it carries ("none" if it carries
\* none), items: that list; isLast: "absent", "true" or "false"; hasStartAt,
\* hasTotal, total: the offset/total pair; links: "absent" (no _links key),
\* "nonext" (_links without next) or "next" (_links with next).
Obj(list, items, isLast, hasStartAt, hasTotal, total, links) ==
  [kind |-> "object", list |-> list, items |-> items, isLast |-> isLast,
   hasStartAt |-> hasStartAt, hasTotal |-> hasTotal, total |-> total,
   links |-> links]

\* A JSON array of items.
Arr(items) ==
  [kind |-> "array", list |-> "none", items |-> items, isLast |-> "absent",
   hasStartAt |-> FALSE, hasTotal |-> FALSE, total |-> 0, links |-> "absent"]

NoData == [kind |-> "none"]
NoRequest == [offset |-> 0, size |-> 0, authorization |-> "", basic |-> <<>>, none |-> TRUE]

\* Python's  key in data  for the keys the routines test.  On a list the
\* test is element membership; the elements are items, never the key string.
Has(d, key) ==
  /\ d.kind = "object"
  /\ CASE key = "isLast"  -> d.isLast # "absent"
       [] key = "startAt" -> d.hasStartAt
       [] key = "total"   -> d.hasTotal
       [] key = "_links"  -> d.links # "absent"
       [] OTHER           -> d.list = key

----------------------------------------------------------------------------
(* Routines and batches *)

Routines == {"fetch_and_save", "fetch_jira_issues", "fetch_confluence_data"}

JiraRoutines == {"fetch_and_save", "fetch_jira_issues"}

\* the list key each routine looks for
ListKey(r) ==
  CASE r = "fetch_and_save"        -> "values"
    [] r = "fetch_jira_issues"     -> "issues"
    [] r = "fetch_confluence_data" -> "results"

PageSize(r) == IF r = "fetch_confluence_data" THEN limit ELSE max_results

\* jira_fetch_and_save_all: every call goes through fetch_and_save
JiraBatch == [i \in 1..BatchLen |-> "fetch_and_save"]

\* jira_fetch_and_save_all with the issue search of line 21 enabled
JiraBatchWithIssues ==
  [i \in 1..BatchLen |-> IF i = 1 THEN "fetch_jira_issues" ELSE "fetch_and_save"]

\* confluence_fetch_and_save_all
ConfluenceBatch == [i \in 1..BatchLen |-> "fetch_confluence_data"]

Batches == {JiraBatch, JiraBatchWithIssues, ConfluenceBatch}

\* a caller that invokes one routine once
SingleCalls == {<<r>> : r \in Routines}

Routine == calls[idx]

----------------------------------------------------------------------------
(* Credentials *)

Configs == [pat : {"", "pat"}, api_token : {"", "tok"}, password : {"pw"}]

\* get_auth: the Jira credential
get_auth(c) ==
  IF c.api_token # ""
    THEN [dict |-> FALSE, bearer |-> "", basic |-> <<JIRA_USERNAME, c.api_token>>]
    ELSE [dict |-> FALSE, bearer |-> "", basic |-> <<JIRA_USERNAME, c.password>>]

\* get_confluence_auth: the Confluence credential
get_confluence_auth(c) ==
  IF c.pat # ""
    THEN [dict |-> TRUE, bearer |-> c.pat, basic |-> <<>>]
    ELSE IF c.api_token # ""
      THEN [dict |-> FALSE, bearer |-> "", basic |-> <<CONFLUENCE_USERNAME, c.api_token>>]
      ELSE [dict |-> FALSE, bearer |-> "", basic |-> <<CONFLUENCE_USERNAME, c.password>>]

\* the request a routine issues at offset sa: headers, auth and params
JiraRequest(c, sa) ==
  [offset |-> sa, size |-> max_results,
   authorization |-> "", basic |-> get_auth(c).basic, none |-> FALSE]

ConfluenceRequest(c, sa) ==
  LET auth == get_confluence_auth(c) IN
  [offset |-> sa, size |-> limit,
   authorization |-> IF auth.dict THEN auth.bearer ELSE "",
   basic |-> IF auth.dict THEN <<>> ELSE auth.basic, none |-> FALSE]

RequestOf(r, c, sa) ==
  IF r = "fetch_confluence_data" THEN ConfluenceRequest(c, sa) ELSE JiraRequest(c, sa)

----------------------------------------------------------------------------
(* The HTTP server *)

\* item lists an unconstrained server puts in a body
FreeLists == {<<>>, <<Item(1), Item(2)>>}

FreeOffsets ==
  {[hasStartAt |-> FALSE, hasTotal |-> FALSE, total |-> 0],
   [hasStartAt |-> TRUE,  hasTotal |-> FALSE, total |-> 0],
   [hasStartAt |-> FALSE, hasTotal |-> TRUE,  total |-> FreeTotal],
   [hasStartAt |-> TRUE,  hasTotal |-> TRUE,  total |-> 0],
   [hasStartAt |-> TRUE,  hasTotal |-> TRUE,  total |-> FreeTotal]}

\* the bodies an unconstrained server may send to routine r: arrays, and
\* objects with or without the routine's list key and with every combination
\* of the three pagination signals
FreeBodies(r) ==
  {Arr(l) : l \in FreeLists}
  \cup {Obj("none", <<>>, il, o.hasStartAt, o.hasTotal, o.total, ln) :
          il \in {"absent", "true", "false"}, o \in FreeOffsets,
          ln \in {"absent", "nonext", "next"}}
  \cup {Obj(ListKey(r), l, il, o.hasStartAt, o.hasTotal, o.total, ln) :
          l \in FreeLists, il \in {"absent", "true", "false"}, o \in FreeOffsets,
          ln \in {"absent", "nonext", "next"}}

FreeServer == [mode |-> "free", style |-> "none", total |-> 0, pages |-> <<>>]

\* a server that holds a collection of `total` items and serves the slice the
\* request asks for, announcing the rest in one of three styles
PagedStyles == {"total", "totalIsLast", "next"}

PagedServers ==
  {[mode |-> "paged", style |-> st, total |-> t, pages |-> <<>>] :
     st \in PagedStyles, t \in 0..MaxTotal}

PagedBody(srv, r, req) ==
  LET s     == req.offset
      e     == IF s + req.size < srv.total THEN s + req.size ELSE srv.total
      items == Slice(s, e)
      more  == s + req.size < srv.total
  IN CASE srv.style = "total" ->
            Obj(ListKey(r), items, "absent", TRUE, TRUE, srv.total, "absent")
       [] srv.style = "totalIsLast" ->
            Obj(ListKey(r), items, IF more THEN "false" ELSE "true",
                TRUE, TRUE, srv.total, "absent")
       [] srv.style = "next" ->
            Obj(ListKey(r), items, "absent", FALSE, FALSE, 0,
                IF more THEN "next" ELSE "nonext")

\* servers that answer the n-th request of a fetch with the n-th page of a
\* fixed script, and with 404 once the script is used up
IsLastPages ==
  <<Obj("values", <<Item(1), Item(2)>>, "absent", FALSE, FALSE, 0, "absent"),
    Obj("values", <<Item(3)>>, "absent", FALSE, FALSE, 0, "absent"),
    Obj("none", <<>>, "true", FALSE, FALSE, 0, "absent")>>

IsLastPagesWithOffsets ==
  <<Obj("values", <<Item(1), Item(2)>>, "false", TRUE, TRUE, 1000, "absent"),
    Obj("values", <<Item(3)>>, "false", TRUE, TRUE, 1000, "absent"),
    Obj("values", <<>>, "true", TRUE, TRUE, 1000, "absent")>>

IsLastPagesBareLast ==
  <<Obj("values", <<Item(1), Item(2)>>, "false", TRUE, TRUE, 1000, "absent"),
    Obj("values", <<Item(3)>>, "false", TRUE, TRUE, 1000, "absent"),
    Obj("none", <<>>, "true", FALSE, FALSE, 0, "absent")>>

ScriptServers ==
  {[mode |-> "script", style |-> "none", total |-> 0, pages |-> p] :
     p \in {IsLastPages, IsLastPagesWithOffsets, IsLastPagesBareLast}}

\* the bodies the server may answer the n-th request `req` of routine r with
Responses(srv, r, req, n) ==
  CASE srv.mode = "free"   -> FreeBodies(r)
    [] srv.mode = "paged"  -> {PagedBody(srv, r, req)}
    [] srv.mode = "script" -> IF n <= Len(srv.pages) THEN {srv.pages[n]} ELSE {}

\* An unconstrained server may announce a next page for ever, which keeps
\* fetch_confluence_data asking: it answers MaxFree requests of such a fetch.
CanRequest(r) ==
  (server.mode = "free" /\ r = "fetch_confluence_data") => requests < MaxFree

----------------------------------------------------------------------------
(* The loop body of each routine: what a page adds to the accumulator, and  *)
(* whether the loop goes on.                                                *)

\* Faulty variant: the list branch is missing, as in fetch_confluence_data
ExtractFetchAndSave_NoListBranch(acc, d) ==
  IF Has(d, "values") THEN acc \o d.items ELSE Append(acc, d)

\* fetch_and_save, lines 133-139
ExtractFetchAndSave(acc, d) ==
  IF Has(d, "values") THEN acc \o d.items
  ELSE IF d.kind = "array" THEN acc \o d.items
  ELSE Append(acc, d)

\* Faulty variant: a total without startAt is taken for a paging signal
PagingFetchAndSave_LoneTotal(d, sa) ==
  IF Has(d, "isLast") /\ d.isLast = "true"
    THEN [stop |-> TRUE, start_at |-> sa]
  ELSE IF Has(d, "total")
    THEN [stop |-> sa + max_results >= d.total, start_at |-> sa + max_results]
  ELSE [stop |-> TRUE, start_at |-> sa]

\* Faulty variant: the isLast test is missing, as in fetch_jira_issues
PagingFetchAndSave_IgnoresIsLast(d, sa) ==
  IF Has(d, "startAt") /\ Has(d, "total")
    THEN [stop |-> sa + max_results >= d.total, start_at |-> sa + max_results]
  ELSE [stop |-> TRUE, start_at |-> sa]

\* fetch_and_save, lines 142-149
PagingFetchAndSave(d, sa) ==
  IF Has(d, "isLast") /\ d.isLast = "true"
    THEN [stop |-> TRUE, start_at |-> sa]
  ELSE IF Has(d, "startAt") /\ Has(d, "total")
    THEN [stop |-> sa + max_results >= d.total, start_at |-> sa + max_results]
  ELSE [stop |-> TRUE, start_at |-> sa]

\* fetch_jira_issues, lines 86-88
ExtractJiraIssues(acc, d) ==
  IF Has(d, "issues") THEN acc \o d.items ELSE acc

\* Faulty variant: the loop ends only once the offset is past the total
PagingJiraIssues_OffByOne(d, sa) ==
  IF Has(d, "startAt") /\ Has(d, "total")
    THEN [stop |-> sa + max_results > d.total, start_at |-> sa + max_results]
  ELSE [stop |-> TRUE, start_at |-> sa]

\* Faulty variant: the offset is not advanced
PagingJiraIssues_NoAdvance(d, sa) ==
  IF Has(d, "startAt") /\ Has(d, "total")
    THEN [stop |-> sa + max_results >= d.total, start_at |-> sa]
  ELSE [stop |-> TRUE, start_at |-> sa]

\* fetch_jira_issues, lines 91-96
PagingJiraIssues(d, sa) ==
  IF Has(d, "startAt") /\ Has(d, "total")
    THEN [stop |-> sa + max_results >= d.total, start_at |-> sa + max_results]
  ELSE [stop |-> TRUE, start_at |-> sa]

\* Faulty variant: the results list is tested for truth, not for presence
ExtractConfluence_Truthy(acc, d) ==
  IF Has(d, "results") /\ d.items # <<>> THEN acc \o d.items ELSE Append(acc, d)

\* fetch_confluence_data, lines 63-67
ExtractConfluence(acc, d) ==
  IF Has(d, "results") THEN acc \o d.items ELSE Append(acc, d)

\* Faulty variant: an isLast flag is consulted before the next link
PagingConfluence_IsLastFirst(d, sa) ==
  IF Has(d, "isLast") /\ d.isLast = "true"
    THEN [stop |-> TRUE, start_at |-> sa]
  ELSE IF Has(d, "_links") /\ d.links = "next"
    THEN [stop |-> FALSE, start_at |-> sa + limit]
  ELSE [stop |-> TRUE, start_at |-> sa]

\* fetch_confluence_data, lines 70-73
PagingConfluence(d, sa) ==
  IF Has(d, "_links") /\ d.links = "next"
    THEN [stop |-> FALSE, start_at |-> sa + limit]
  ELSE [stop |-> TRUE, start_at |-> sa]

----------------------------------------------------------------------------
(* Actions *)

\* the result of a call that wrote its file: json.dump of the accumulator
Written(r, acc) == [call |-> r, written |-> TRUE, content |-> acc, error |-> FALSE]

\* Faulty variant: the except clause writes what was accumulated so far
Failed_PersistsPartial(r) ==
  [call |-> r, written |-> TRUE, content |-> all_data, error |-> TRUE]

\* the result of a call whose except clause logged the error
Failed(r) == [call |-> r, written |-> FALSE, content |-> <<>>, error |-> TRUE]

\* the driver calls the next routine of the batch: the routine's locals
Call ==
  /\ pc = "idle"
  /\ idx <= Len(calls)
  /\ pc' = "loop"
  /\ start_at' = 0
  /\ all_data' = <<>>
  /\ requests' = 0
  /\ data' = NoData
  /\ UNCHANGED <<cfg, server, calls, idx, sent, results>>

\* one iteration of a routine's loop on a response d: the page is merged,
\* the paging decision taken and, when the loop ends, the file written
Iterate(r, d, acc, paging) ==
  /\ sent' = RequestOf(r, cfg, start_at)
  /\ requests' = requests + 1
  /\ data' = d
  /\ all_data' = acc
  /\ start_at' = paging.start_at
  /\ IF paging.stop
       THEN /\ results' = Append(results, Written(r, acc))
            /\ idx' = idx + 1
            /\ pc' = "idle"
       ELSE UNCHANGED <<results, idx, pc>>
  /\ UNCHANGED <<cfg, server, calls>>

FetchAndSavePage ==
  /\ pc = "loop"
  /\ Routine = "fetch_and_save"
  /\ CanRequest(Routine)
  /\ \E d \in Responses(server, Routine, RequestOf(Routine, cfg, start_at), requests + 1) :
       Iterate(Routine, d, ExtractFetchAndSave(all_data, d), PagingFetchAndSave(d, start_at))

FetchJiraIssuesPage ==
  /\ pc = "loop"
  /\ Routine = "fetch_jira_issues"
  /\ CanRequest(Routine)
  /\ \E d \in Responses(server, Routine, RequestOf(Routine, cfg, start_at), requests + 1) :
       Iterate(Routine, d, ExtractJiraIssues(all_data, d), PagingJiraIssues(d, start_at))

FetchConfluencePage ==
  /\ pc = "loop"
  /\ Routine = "fetch_confluence_data"
  /\ CanRequest(Routine)
  /\ \E d \in Responses(server, Routine, RequestOf(Routine, cfg, start_at), requests + 1) :
       Iterate(Routine, d, ExtractConfluence(all_data, d), PagingConfluence(d, start_at))

\* Faulty variant: the exception leaves the routine and ends the batch
OnRequestException_Propagates(r) ==
  /\ results' = Append(results, Failed(r))
  /\ idx' = Len(calls) + 1
  /\ pc' = "idle"

\* what every routine's except clause does with a RequestException: the
\* error is logged, nothing is written and the routine returns normally
OnRequestException(r) ==
  /\ results' = Append(results, Failed(r))
  /\ idx' = idx + 1
  /\ pc' = "idle"

\* requests.get or raise_for_status raises a RequestException
RequestFails ==
  /\ pc = "loop"
  /\ CanRequest(Routine)
  /\ sent' = RequestOf(Routine, cfg, start_at)
  /\ requests' = requests + 1
  /\ OnRequestException(Routine)
  /\ UNCHANGED <<cfg, server, calls, start_at, all_data, data>>

Init ==
  /\ cfg \in Configs
  /\ \/ /\ server = FreeServer
        /\ calls \in SingleCalls
     \/ /\ server \in PagedServers \cup ScriptServers
        /\ calls \in Batches
  /\ idx = 1
  /\ pc = "idle"
  /\ start_at = 0
  /\ all_data = <<>>
  /\ requests = 0
  /\ data = NoData
  /\ sent = NoRequest
  /\ results = <<>>

PageStep == FetchAndSavePage \/ FetchJiraIssuesPage \/ FetchConfluencePage

Next == Call \/ FetchAndSavePage \/ FetchJiraIssuesPage \/ FetchConfluencePage \/ RequestFails

Spec == Init /\ [][Next]_vars

\* the collection served is finite: a paging or scripted server, or a Jira
\* routine (every total an unconstrained server reports is at most FreeTotal)
FiniteCollection ==
  \/ server.mode \in {"paged", "script"}
  \/ \A i \in 1..Len(calls) : calls[i] \in JiraRoutines

FiniteInit == Init /\ FiniteCollection

\* The fetches against a finite collection.  The code is sequential: the
\* driver makes its next call, and every request is answered (requests.get
\* blocks until it returns or raises), so a routine inside its loop takes its
\* next step.
LiveSpec ==
  FiniteInit /\ [][Next]_vars /\ WF_vars(Call) /\ WF_vars(PageStep \/ RequestFails)

----------------------------------------------------------------------------
(* Vocabulary of the properties *)

\* a call's result: its file written with `content`, or an error logged
FileWritten(r, content) ==
  [call |-> r, written |-> TRUE, content |-> content, error |-> FALSE]

ErrorLogged(r) ==
  [call |-> r, written |-> FALSE, content |-> <<>>, error |-> TRUE]

Last == results[Len(results)]

\* a routine has just returned: its locals still hold their final values
Returned == pc = "idle" /\ results # <<>>

\* this step logged a request failure
FailureStep == Len(results') = Len(results) + 1 /\ results'[Len(results')].error

\* this step issued a request and parsed its response
PageReceived == pc = "loop" /\ requests' = requests + 1 /\ ~FailureStep

Ceil(a, b) == (a + b - 1) \div b

TotalStyles == {"total", "totalIsLast"}

\* the response carries none of the three pagination signals
NoSignal(d) ==
  /\ ~Has(d, "isLast")
  /\ ~(Has(d, "startAt") /\ Has(d, "total"))
  /\ ~(Has(d, "_links") /\ d.links = "next")

\* what each routine takes from a body
PageItems(r, d) ==
  CASE r = "fetch_and_save" ->
         IF Has(d, "values") \/ d.kind = "array" THEN d.items ELSE <<d>>
    [] r = "fetch_jira_issues" ->
         IF Has(d, "issues") THEN d.items ELSE <<>>
    [] r = "fetch_confluence_data" ->
         IF Has(d, "results") THEN d.items ELSE <<d>>

----------------------------------------------------------------------------
(* C1 *)

\* C1 as stated: against a server that reports startAt and total on every
\* page and serves the slice [offset, offset + page size), a Jira routine
\* that wrote its file has issued exactly ceil(total / page size) requests and
\* accumulated exactly total items, for every total >= 0.
C1_AsStated ==
  (Returned /\ Last.written /\ Last.call \in JiraRoutines
     /\ server.mode = "paged" /\ server.style \in TotalStyles)
  => /\ requests = Ceil(server.total, max_results)
     /\ Len(all_data) = server.total

\* C1 amended: the same, except that an empty collection (total = 0) costs
\* one request, the one that reports the total; the accumulator and the file
\* hold the total items in the server's order.
C1_RequestsAndLength ==
  (Returned /\ Last.written /\ Last.call \in JiraRoutines
     /\ server.mode = "paged" /\ server.style \in TotalStyles)
  => /\ requests = IF server.total = 0 THEN 1 ELSE Ceil(server.total, max_results)
     /\ Len(all_data) = server.total
     /\ all_data = Slice(0, server.total)
     /\ Last.content = all_data

C1_Witness ==
  /\ Returned /\ Last.written /\ Last.call = "fetch_jira_issues"
  /\ server.mode = "paged" /\ server.style = "total" /\ server.total = 2 * max_results
  /\ requests = 2
  /\ Len(all_data) = 2 * max_results

----------------------------------------------------------------------------
(* C2 *)

\* C2: in each routine, when the first response carries no pagination signal
\* (no isLast, no startAt+total pair, no next link) the routine returns on
\* that step, having issued one request, and the accumulator and the file
\* hold exactly the items taken from that page.
C2_NoSignalOneRequest ==
  [][(PageReceived /\ requests = 0 /\ NoSignal(data'))
       => /\ pc' = "idle"
          /\ requests' = 1
          /\ results' = Append(results, FileWritten(Routine, PageItems(Routine, data')))
          /\ all_data' = PageItems(Routine, data')]_vars

C2_Witness ==
  /\ Returned /\ Last.written /\ Last.call = "fetch_confluence_data"
  /\ requests = 1
  /\ data.kind = "object" /\ NoSignal(data) /\ data.links = "nonext"
  /\ all_data = <<Item(1), Item(2)>>

----------------------------------------------------------------------------
(* C3 *)

ThreeItems == <<Item(1), Item(2), Item(3)>>

\* C3 as stated: served the pages {"values":[1,2]}, {"values":[3]},
\* {"isLast":true}, fetch_and_save ends with the accumulator [1,2,3] after
\* exactly 3 requests.
C3_AsStated ==
  (Returned /\ Last.call = "fetch_and_save" /\ Last.written
     /\ server.mode = "script" /\ server.pages = IsLastPages)
  => (all_data = ThreeItems /\ requests = 3)

\* C3 amended: fetch_and_save asks for a further page only after a page that
\* carries startAt and total and whose isLast is not true, and a page with
\* isLast = true ends the loop.  Served {"values":[1,2]}, {"values":[3]},
\* {"isLast":true} it stops after the first request with [1,2]; served the
\* same items on pages that also carry isLast = false, startAt and total, and a
\* last page {"values":[], "isLast":true}, it ends with [1,2,3] after exactly
\* 3 requests; when that last page has no values key the page itself becomes
\* the fourth item.
C3_IsLastPaging ==
  /\ (pc = "loop" /\ requests > 0 /\ Routine = "fetch_and_save")
       => (data.isLast # "true" /\ Has(data, "startAt") /\ Has(data, "total")
             /\ start_at < data.total)
  /\ (Returned /\ Last.call = "fetch_and_save" /\ Last.written /\ server.mode = "script")
       => /\ Last.content = all_data
          /\ server.pages = IsLastPages
               => (requests = 1 /\ all_data = <<Item(1), Item(2)>>)
          /\ server.pages = IsLastPagesWithOffsets
               => (requests = 3 /\ all_data = ThreeItems)
          /\ server.pages = IsLastPagesBareLast
               => (requests = 3 /\ all_data = Append(ThreeItems, IsLastPagesBareLast[3]))

C3_Witness ==
  /\ Returned /\ Last.call = "fetch_and_save" /\ Last.written
  /\ server.mode = "script" /\ server.pages = IsLastPagesWithOffsets
  /\ requests = 3
  /\ data.isLast = "true"
  /\ all_data = ThreeItems

----------------------------------------------------------------------------
(* C4 *)

\* C4: a failing page request ends the fetch as a logged failure: the
\* call's result is an error with no file (the partial accumulator is not
\* written), the same request is not issued again, the result of a finished
\* call never changes afterwards (no file appears later), every call before
\* the driver's position has exactly one result, the driver stands ready to
\* make the next call of the batch, and the batch goes on until every
\* endpoint has its result.
C4_FailureSkipsEndpoint ==
  /\ [][FailureStep
          => /\ results' = Append(results, ErrorLogged(Routine))
             /\ ~results'[Len(results')].written
             /\ results'[Len(results')].content = <<>>
             /\ idx' = idx + 1
             /\ pc' = "idle"]_vars
  /\ [][\A i \in 1..Len(results) : i <= Len(results') /\ results'[i] = results[i]]_vars
  /\ [](Len(results) = idx - 1 /\ idx <= Len(calls) + 1)
  /\ []((pc = "idle" /\ idx <= Len(calls)) => ENABLED Call)
  /\ ((results # <<>> /\ Last.error) ~> (pc = "idle" /\ Len(results) = Len(calls)))

\* the second request of the first endpoint has just failed, after a page was
\* accumulated: an error is logged, nothing is written and the driver has
\* moved on to the second endpoint
C4_PartialNotPersisted ==
  /\ Returned /\ Last.error /\ ~Last.written
  /\ requests = 2 /\ all_data # <<>>
  /\ idx = 2 /\ calls = JiraBatch
  /\ server.mode = "paged"

----------------------------------------------------------------------------
(* C5 *)

\* C5: whenever the personal access token is set, every request carries it
\* as a bearer credential and carries no basic auth, in both systems.
C5_BearerPrecedence ==
  (~sent.none /\ cfg.pat # "")
  => (sent.authorization = cfg.pat /\ sent.basic = <<>>)

----------------------------------------------------------------------------
(* C6 *)

\* C6 as stated: a request failure inside fetch_jira_issues aborts the batch
\* at that point: no later call is made.
C6_AsStated ==
  \A i \in 1..Len(results) :
    (results[i].call = "fetch_jira_issues" /\ results[i].error)
    => (Len(results) = i /\ pc = "idle")

\* C6 amended: a request failure inside fetch_jira_issues is handled like
\* one inside fetch_and_save: it is logged, no file is written, the routine
\* returns normally and the driver goes on with the next call of the batch.
C6_FailureNotFatal ==
  /\ \A i \in 1..Len(results) :
       (results[i].call \in JiraRoutines /\ results[i].error) => ~results[i].written
  /\ Len(results) = idx - 1
  /\ (pc = "idle" /\ idx <= Len(calls)) => ENABLED Call

C6_Witness ==
  /\ calls = JiraBatchWithIssues
  /\ Len(results) = 2
  /\ results[1].call = "fetch_jira_issues" /\ results[1].error
  /\ results[2].call = "fetch_and_save" /\ results[2].written

----------------------------------------------------------------------------
(* C7 *)

\* the three-way shape policy for a routine whose list key is `key`
PolicyItems(key, d) ==
  IF Has(d, key) THEN d.items
  ELSE IF d.kind = "array" THEN d.items
  ELSE <<d>>

\* C7 as stated: in every routine a response adds to the accumulator what the
\* three-way policy takes from it: the list under the routine's list key,
\* else the elements of a body that is a sequence, else the body itself.
C7_AsStated ==
  [][PageReceived
       => all_data' = all_data \o PolicyItems(ListKey(Routine), data')]_vars

\* C7 amended: fetch_and_save follows the three-way policy.
\* fetch_confluence_data has no sequence branch: a body without the results
\* key, a sequence included, is appended whole as one item.
\* fetch_jira_issues has only the first branch: a body without the issues
\* key adds nothing.
C7_ShapePolicyPerRoutine ==
  [][PageReceived
       => all_data' = all_data \o
            (CASE Routine = "fetch_and_save" -> PolicyItems("values", data')
               [] Routine = "fetch_confluence_data" ->
                    IF Has(data', "results") THEN data'.items ELSE <<data'>>
               [] Routine = "fetch_jira_issues" ->
                    IF Has(data', "issues") THEN data'.items ELSE <<>>)]_vars

\* fetch_and_save has taken the elements of an array body on its second page
C7_Witness ==
  /\ Returned /\ Last.written /\ Last.call = "fetch_and_save"
  /\ requests = 2
  /\ data = Arr(<<Item(1), Item(2)>>)
  /\ all_data = <<Item(1), Item(2), Item(1), Item(2)>>

----------------------------------------------------------------------------
(* C8 *)

\* the first page carries an empty item list
EmptyList(r, d) ==
  \/ Has(d, ListKey(r)) /\ d.items = <<>>
  \/ r = "fetch_and_save" /\ d.kind = "array" /\ d.items = <<>>

\* C8 as stated: in fetch_and_save and fetch_confluence_data a first page
\* that holds no items (its item list is empty) ends the fetch on that request with an empty
\* accumulator and an empty array written, and a first page reporting
\* total = 0 is followed by no further request.
C8_AsStated ==
  [][(PageReceived /\ requests = 0
        /\ Routine \in {"fetch_and_save", "fetch_confluence_data"})
       => /\ EmptyList(Routine, data')
               => (pc' = "idle" /\ all_data' = <<>>
                     /\ results' = Append(results, FileWritten(Routine, <<>>)))
          /\ (Has(data', "total") /\ data'.total = 0) => pc' = "idle"]_vars

\* the first page asks for no further page
FirstPageStops(r, d) ==
  CASE r = "fetch_and_save" ->
         \/ Has(d, "isLast") /\ d.isLast = "true"
         \/ ~(Has(d, "startAt") /\ Has(d, "total"))
         \/ d.total <= max_results
    [] r = "fetch_confluence_data" -> ~(Has(d, "_links") /\ d.links = "next")

\* C8 amended: a first page whose item list is empty (an empty list under
\* the routine's list key or, in fetch_and_save, an empty array) and which
\* asks for no further page ends the fetch normally on that request with an
\* empty accumulator, and an empty array is written.  When such a page does
\* ask for a further page (startAt and total with total above the page size
\* and isLast not true; a next link in Confluence) another request follows.
\* In fetch_and_save a first page reporting total = 0 is followed by no
\* further request; in fetch_confluence_data that holds when the page has no
\* next link.
C8_EmptyFirstPage ==
  [][(PageReceived /\ requests = 0
        /\ Routine \in {"fetch_and_save", "fetch_confluence_data"})
       => /\ EmptyList(Routine, data') => all_data' = <<>>
          /\ (EmptyList(Routine, data') /\ FirstPageStops(Routine, data'))
               => (pc' = "idle" /\ results' = Append(results, FileWritten(Routine, <<>>)))
          /\ (EmptyList(Routine, data') /\ ~FirstPageStops(Routine, data'))
               => (pc' = "loop" /\ results' = results)
          /\ (Has(data', "total") /\ data'.total = 0
                /\ (Routine = "fetch_and_save" \/ FirstPageStops(Routine, data')))
               => pc' = "idle"]_vars

\* an empty collection: one request, an empty array written
C8_Witness ==
  /\ Returned /\ Last.written /\ Last.content = <<>>
  /\ Last.call = "fetch_and_save"
  /\ requests = 1
  /\ Has(data, "values") /\ data.items = <<>>
  /\ Has(data, "total") /\ data.total = 0
  /\ all_data = <<>>

----------------------------------------------------------------------------
(* C9 *)

\* the decision of the stated precedence order: isLast, then startAt+total,
\* then the next link
StatedContinue(d, sa, size) ==
  IF Has(d, "isLast") THEN d.isLast = "false"
  ELSE IF Has(d, "startAt") /\ Has(d, "total") THEN sa + size < d.total
  ELSE Has(d, "_links") /\ d.links = "next"

\* C9 as stated: after each page, in every routine, the loop goes on exactly
\* when the first signal the response exposes, in the order isLast,
\* startAt+total, next link, says so.
C9_AsStated ==
  [][PageReceived
       => ((pc' = "loop") <=> StatedContinue(data', start_at, PageSize(Routine)))]_vars

\* C9 amended: each routine consults its own signals only.
\* fetch_and_save: isLast = true stops; otherwise (isLast absent or false) a
\* startAt+total pair advances the offset by the page size and stops once the
\* offset >= total; otherwise it stops (isLast = false alone does not
\* continue, the next link is not consulted).
\* fetch_jira_issues: only the startAt+total pair, in the same way.
\* fetch_confluence_data: only the next link: present, the offset advances
\* and the loop goes on; absent, it stops.
C9_SignalsPerRoutine ==
  [][PageReceived
       => LET d     == data'
              pair  == Has(d, "startAt") /\ Has(d, "total")
              last  == Has(d, "isLast") /\ d.isLast = "true"
              next  == Has(d, "_links") /\ d.links = "next"
          IN CASE Routine = "fetch_and_save" ->
                    /\ (pc' = "loop") <=> (~last /\ pair /\ start_at + max_results < d.total)
                    /\ start_at' = IF ~last /\ pair THEN start_at + max_results ELSE start_at
               [] Routine = "fetch_jira_issues" ->
                    /\ (pc' = "loop") <=> (pair /\ start_at + max_results < d.total)
                    /\ start_at' = IF pair THEN start_at + max_results ELSE start_at
               [] Routine = "fetch_confluence_data" ->
                    /\ (pc' = "loop") <=> next
                    /\ start_at' = IF next THEN start_at + limit ELSE start_at]_vars

\* fetch_confluence_data goes on after a page that says isLast = true and
\* carries a next link
C9_Witness ==
  /\ pc = "loop" /\ Routine = "fetch_confluence_data"
  /\ requests = 1
  /\ data.isLast = "true" /\ data.links = "next"
  /\ start_at = limit

----------------------------------------------------------------------------
(* C10 *)

AtLeastOne(n) == IF n < 1 THEN 1 ELSE n

\* requests a fetch needs at most
RequestBound ==
  CASE server.mode = "paged"  -> AtLeastOne(Ceil(server.total, max_results))
    [] server.mode = "script" -> Len(server.pages) + 1
    [] server.mode = "free"   -> AtLeastOne(Ceil(FreeTotal, max_results))

\* C10: when the collection served is finite and every request is answered,
\* every fetch that is in its loop eventually returns (file written or
\* failure logged), it issues at most the number of requests the
\* collection's size allows, a loop that ends on a page writes the file on
\* that step, and once a routine has returned no request is issued until the
\* next call starts.
C10_FetchTerminates ==
  /\ [][requests' <= RequestBound]_vars
  /\ [][pc = "idle" => (requests' = requests \/ (requests' = 0 /\ pc' = "loop"))]_vars
  /\ [][(PageReceived /\ pc' = "idle") => results' = Append(results, FileWritten(Routine, all_data'))]_vars
  /\ ((pc = "loop") ~> (pc = "idle"))

\* a fetch of three pages has returned
C10_Witness ==
  /\ Returned /\ Last.written /\ Last.call = "fetch_confluence_data"
  /\ server.mode = "paged" /\ server.style = "next" /\ server.total > 2 * limit
  /\ requests = 3
  /\ data.links = "nonext"

====
